---- MODULE Spec2Model ----
(***************************************************************************)
(* A model of retinanet::NMSRotatePlugin (csrc/plugins/NMSRotatePlugin.h), *)
(* the TensorRT plugin that fronts the rotated non-maximum-suppression     *)
(* pass cuda::nms_rotate.                                                  *)
(*                                                                         *)
(* Conventions.                                                            *)
(*  - A float is held as its IEEE-754 binary32 bit pattern read as a       *)
(*    signed 32-bit integer, which is what write<float>/read<float> copy.  *)
(*    For non-negative floats the order of the patterns is the order of    *)
(*    the values.                                                          *)
(*  - assert(e) is taken as written: <cassert> is included and the header  *)
(*    defines no NDEBUG, so a failed assert aborts the process             *)
(*    (phase = "aborted", after which nothing runs).                       *)
(*  - Sizes are those of an LP64 build: float 4, int 4, size_t 8 bytes,    *)
(*    little-endian.                                                       *)
(*  - cuda::nms_rotate lives in csrc/cuda/nms_iou.h, which is not part of  *)
(*    the sources at hand; it is modelled from sections 4.1-4.5 and 7 of   *)
(*    the specification.  Boxes are rotated rectangles of angle 0 and      *)
(*    height 1 on an integer grid, for which the polygon intersection is   *)
(*    an interval intersection.                                            *)
(***************************************************************************)
EXTENDS Integers, Sequences, FiniteSets, TLC

\* ------------------------------------------------------------------ bounds
MaxBatch == 2
MaxCount == 2
MaxDet == 2
MaxThresh == 2
NmsCand == 3
NmsGrid == 4
NmsDet == 3
MonoCand == 4
MonoGrid == 5
MonoDet == 3

\* ------------------------------------------------- sizes of the three fields
SizeofFloat == 4
SizeofInt == 4
SizeofSizeT == 8

Min(a, b) == IF a <= b THEN a ELSE b
Max(a, b) == IF a >= b THEN a ELSE b

RECURSIVE Pow2(_)
Pow2(n) == IF n = 0 THEN 1 ELSE 2 * Pow2(n - 1)

\* ------------------------------------------------------------------ floats
\* The bit pattern of the float with biased exponent e and mantissa m.
FloatBits(e, m) == e * Pow2(23) + m

\* The largest p with 2^p <= k (k >= 1).
RECURSIVE Log2(_)
Log2(k) == IF k < 2 THEN 0 ELSE 1 + Log2(k \div 2)

\* The float k/8 (k >= 0, exactly representable for the small k used here).
FloatOfEighths(k) ==
  IF k = 0 THEN 0
  ELSE LET p == Log2(k)
       IN  FloatBits(127 - 3 + p, (k - Pow2(p)) * Pow2(23 - p))

\* 8 * value of a float pattern: exact for multiples of 1/8 below 2^20,
\* which are the values that occur.  Negative patterns have the sign bit set.
EighthsMag(bits) ==
  IF bits = 0 THEN 0
  ELSE LET e == bits \div Pow2(23)
           m == bits % Pow2(23)
       IN  (Pow2(23) + m) \div Pow2(147 - e)

Eighths(bits) ==
  IF bits >= 0 THEN EighthsMag(bits)
  ELSE 0 - EighthsMag((bits + 2147483647) + 1)

\* C++ "f > 0" on a float: positive sign, not zero, not a NaN.
FloatGtZero(bits) == bits > 0 /\ bits <= FloatBits(255, 0)

\* ----------------------------------------------------------- object bytes
\* The n-byte little-endian two's-complement object representation of v.
RECURSIVE LEBytes(_, _)
LEBytes(v, n) ==
  IF n = 0 THEN <<>> ELSE <<v % 256>> \o LEBytes(v \div 256, n - 1)

RECURSIVE FromLEUnsigned(_)
FromLEUnsigned(bytes) ==
  IF bytes = <<>> THEN 0
  ELSE Head(bytes) + 256 * FromLEUnsigned(Tail(bytes))

FromLESigned(bytes) ==
  LET n == Len(bytes)
      top == bytes[n]
      low == FromLEUnsigned(SubSeq(bytes, 1, n - 1))
  IN  low + Pow2(8 * (n - 1)) * (IF top >= 128 THEN top - 256 ELSE top)

Sizeof(T) ==
  CASE T = "float" -> SizeofFloat
    [] T = "int" -> SizeofInt
    [] T = "size_t" -> SizeofSizeT

Decode(bytes, T) ==
  IF T = "size_t" THEN FromLEUnsigned(bytes) ELSE FromLESigned(bytes)

\* write<T>: store val at the cursor and advance it by sizeof(T).  The
\* cursor is the end of the bytes written so far.
write(buffer, val, T) == buffer \o LEBytes(val, Sizeof(T))

\* read<T>: load a T at the cursor and advance it by sizeof(T).
read(cur, T) ==
  [val |-> Decode(SubSeq(cur.data, cur.pos + 1, cur.pos + Sizeof(T)), T),
   data |-> cur.data,
   pos |-> cur.pos + Sizeof(T)]

getSerializationSize == SizeofFloat + SizeofInt + SizeofSizeT

\* serialize with the second field written twice.
serializeDup(p) ==
  LET d1 == write(<<>>, p.nms_thresh, "float")
      d2 == write(d1, p.detections_per_im, "int")
  IN  write(d2, p.detections_per_im, "size_t")

serialize(p) ==
  LET d1 == write(<<>>, p.nms_thresh, "float")
      d2 == write(d1, p.detections_per_im, "int")
  IN  write(d2, p.count, "size_t")

\* deserialize: the three fields in order; the size cache keeps its default
\* member initializer, -1.
deserialize(data) ==
  LET r1 == read([data |-> data, pos |-> 0], "float")
      r2 == read(r1, "int")
      r3 == read(r2, "size_t")
  IN  [nms_thresh |-> r1.val, detections_per_im |-> r2.val,
       count |-> r3.val, size |-> -1]

\* --------------------------------------------------------------- geometry
\* A rotated rectangle of angle 0 and height 1 spanning [x0, x1) on the grid.
BoxesOn(g) == {b \in [x0 : 0..g, x1 : 0..g] : b.x0 < b.x1}

Area(a) == a.x1 - a.x0

Intersection(a, b) == Max(0, Min(a.x1, b.x1) - Max(a.x0, b.x0))

Union(a, b) == Area(a) + Area(b) - Intersection(a, b)

\* overlap(a, b) <= t for a float t that is a multiple of 1/8:
\* intersection / union <= t, a degenerate pair overlapping by 0.
OverlapLeq(a, b, t) ==
  IF Union(a, b) <= 0 THEN 0 <= Eighths(t)
  ELSE 8 * Intersection(a, b) <= Eighths(t) * Union(a, b)

\* ----------------------------------------------------------------- ranker
\* Candidate i comes before candidate j: higher score, ties by lower index.
RankedBefore(cands, i, j) ==
  \/ cands[i].score > cands[j].score
  \/ cands[i].score = cands[j].score /\ i < j

\* The indices of cands in ranked order.
Rank(cands) ==
  LET n == Len(cands)
      pos(i) == 1 + Cardinality({j \in 1..n : RankedBefore(cands, j, i)})
  IN  [p \in 1..n |-> CHOOSE i \in 1..n : pos(i) = p]

\* ------------------------------------------------------------ suppression
\* One visit of the greedy pass: the candidate joins the kept list when the
\* cap is not reached and it overlaps no kept detection by more than thresh.
SuppressStep(kept, cand, thresh, dpi) ==
  IF Len(kept) >= dpi THEN kept
  ELSE IF \A k \in 1..Len(kept) : OverlapLeq(kept[k].box, cand.box, thresh)
       THEN Append(kept, cand)
       ELSE kept

\* The kept original indices of one image after the first k ranked candidates.
RECURSIVE SuppressImage(_, _, _, _, _)
SuppressImage(cands, order, k, thresh, dpi) ==
  IF k = 0 THEN <<>>
  ELSE LET before == SuppressImage(cands, order, k - 1, thresh, dpi)
           keptC == [i \in 1..Len(before) |-> cands[before[i]]]
           after == SuppressStep(keptC, cands[order[k]], thresh, dpi)
       IN  IF Len(after) > Len(before) THEN Append(before, order[k])
           ELSE before

\* Scratch bytes for a batch: per image a rank index and a score per
\* candidate, a kept index per output entry and a kept counter.
RequiredWorkspace(batch_size, count, dpi) ==
  batch_size * (8 * count + 4 * dpi + 4)

\* cuda::nms_rotate.  Without a workspace it is the sizing query and returns
\* the bytes required; with one it runs the pass once for the batch and
\* returns 0, or a non-zero status when the workspace size it is told is
\* too small or the execution context fails.
nms_rotate(batch_size, inputs, count, dpi, thresh, workspace, workspace_size, stream) ==
  IF ~workspace
  THEN [ret |-> RequiredWorkspace(batch_size, count, dpi), out |-> <<>>, runs |-> 0]
  ELSE IF workspace_size < RequiredWorkspace(batch_size, count, dpi) \/ ~stream
  THEN [ret |-> 1, out |-> <<>>, runs |-> 1]
  ELSE [ret |-> 0,
        out |-> [im \in 1..batch_size |->
                   SuppressImage(inputs[im], Rank(inputs[im]), count, thresh, dpi)],
        runs |-> 1]

\* ----------------------------------------------------------------- plugin
\* The object before any constructor ran; size carries the default member
\* initializer of "mutable int size = -1".
NoPlugin == [nms_thresh |-> 0, detections_per_im |-> 0, count |-> 0, size |-> -1]

\* NMSRotatePlugin(float, int): _count is not initialized; garbage is the
\* indeterminate value the member holds.
Ctor2(nms_thresh, detections_per_im, garbage) ==
  [ok |-> FloatGtZero(nms_thresh) /\ detections_per_im > 0,
   inst |-> [nms_thresh |-> nms_thresh, detections_per_im |-> detections_per_im,
             count |-> garbage, size |-> -1]]

\* NMSRotatePlugin(float, int, size_t).
Ctor3(nms_thresh, detections_per_im, count) ==
  [ok |-> FloatGtZero(nms_thresh) /\ detections_per_im > 0 /\ count > 0,
   inst |-> [nms_thresh |-> nms_thresh, detections_per_im |-> detections_per_im,
             count |-> count, size |-> -1]]

\* NMSRotatePlugin(void const*, size_t): deserialize, no assert.
CtorData(data) == [ok |-> TRUE, inst |-> deserialize(data)]

clone(p) == Ctor3(p.nms_thresh, p.detections_per_im, p.count)

getNbOutputs == 3

\* getOutputDimensions with the factor 6 on the wrong output index.
getOutputDimensionsWrongIndex(p, index, nbInputDims) ==
  [ok |-> nbInputDims = 3 /\ index < getNbOutputs,
   d0 |-> p.detections_per_im * (IF index = 0 THEN 6 ELSE 1)]

getOutputDimensions(p, index, nbInputDims) ==
  [ok |-> nbInputDims = 3 /\ index < getNbOutputs,
   d0 |-> p.detections_per_im * (IF index = 1 THEN 6 ELSE 1)]

supportsFormat(type, format) == type = "kFLOAT" /\ format = "kLINEAR"

\* getWorkspaceSize: the sizing query runs only while the cache is negative.
getWorkspaceSize(p, maxBatchSize) ==
  LET sz == IF p.size < 0
            THEN nms_rotate(maxBatchSize, <<>>, p.count, p.detections_per_im,
                            p.nms_thresh, FALSE, 0, TRUE).ret
            ELSE p.size
  IN  [inst |-> [p EXCEPT !.size = sz], ret |-> sz]

\* enqueue handing the pass a fixed threshold of 0.5 instead of _nms_thresh.
EnqueueArgsFixedThresh(p) ==
  [count |-> p.count, detections_per_im |-> p.detections_per_im,
   nms_thresh |-> FloatOfEighths(4)]

\* The configuration enqueue hands to the pass.
EnqueueArgs(p) ==
  [count |-> p.count, detections_per_im |-> p.detections_per_im,
   nms_thresh |-> p.nms_thresh]

\* enqueue dropping the status of the pass and reporting success.
enqueueIgnoreStatus(p, batchSize, inputs, stream) ==
  LET a == EnqueueArgs(p)
      g == getWorkspaceSize(p, batchSize)
      r == nms_rotate(batchSize, inputs, a.count, a.detections_per_im,
                      a.nms_thresh, TRUE, g.ret, stream)
  IN  [inst |-> g.inst, ret |-> 0, out |-> r.out,
       passed |-> g.ret, runs |-> r.runs]

enqueue(p, batchSize, inputs, stream) ==
  LET a == EnqueueArgs(p)
      g == getWorkspaceSize(p, batchSize)
      r == nms_rotate(batchSize, inputs, a.count, a.detections_per_im,
                      a.nms_thresh, TRUE, g.ret, stream)
  IN  [inst |-> g.inst, ret |-> r.ret, out |-> r.out,
       passed |-> g.ret, runs |-> r.runs]

\* configurePlugin without the assert on the boxes length.
configurePluginNoBoxCheck(p, inputDims, nbInputs, inputTypes, floatFormat) ==
  [ok |-> /\ inputTypes[1] = "kFLOAT" /\ floatFormat = "kLINEAR"
          /\ nbInputs = 3
          /\ inputDims[1] = inputDims[3],
   inst |-> [p EXCEPT !.count = inputDims[1]]]

\* configurePlugin: four asserts in order, then _count = inputDims[0].d[0].
\* Sequences are 1-based: inputDims[1] is the scores, [2] the boxes, [3] the
\* classes.
configurePlugin(p, inputDims, nbInputs, inputTypes, floatFormat) ==
  [ok |-> /\ inputTypes[1] = "kFLOAT" /\ floatFormat = "kLINEAR"
          /\ nbInputs = 3
          /\ inputDims[1] = inputDims[3]
          /\ inputDims[2] = inputDims[3] * 6,
   inst |-> [p EXCEPT !.count = inputDims[1]]]

\* ------------------------------------------------------------------ state
VARIABLES
  inst,       \* the plugin object: _nms_thresh, _detections_per_im, _count, size
  phase,      \* "none" before construction, "live", "aborted" after an assert
  cfg,        \* the input types and format of the accepted configurePlugin
  last,       \* the last call: its arguments and what it returned
  visited,    \* suppression pass: ranked candidates visited so far
  kept,       \* suppression pass: detections kept under inst.nms_thresh
  thr2,       \* a second threshold run on the same candidates
  kept2,      \* suppression pass: detections kept under thr2
  slot        \* the image's output slot once the pass has written it

vars == <<inst, phase, cfg, last, visited, kept, thr2, kept2, slot>>
passVars == <<visited, kept, thr2, kept2, slot>>

Thresholds == {FloatOfEighths(k) : k \in 1..MaxThresh}
DataTypes == {"kFLOAT", "kHALF"}
Formats == {"kLINEAR", "kCHW32"}
AllFloat == [i \in 1..3 |-> "kFLOAT"]

Unconfigured == [configured |-> FALSE, types |-> <<>>, fmt |-> ""]
NoSlot == [written |-> FALSE, n |-> 0, scores |-> 0, boxes |-> 0, classes |-> 0]
NoCall ==
  [op |-> "none", b |-> 0, ret |-> 0, ok |-> TRUE, ws |-> 0, ctx |-> TRUE,
   passed |-> 0, runs |-> 0, out |-> <<>>, buf |-> <<>>, from |-> NoPlugin,
   args |-> <<>>]

Call(op) == [NoCall EXCEPT !.op = op]

\* Arguments the constructors are tried with: valid ones, zero and negative.
CtorThresh == Thresholds \cup {0, 0 - FloatOfEighths(8)}
CtorDet == (0 - 1)..MaxDet
CtorCount == 0..MaxCount

\* Bytes of an engine file no plugin wrote: all zero.
RawBlobs == {[i \in 1..getSerializationSize |-> 0]}

\* Candidate arrays of one image and of a batch in the lifecycle: each
\* candidate is one of two disjoint boxes, and every image of a batch
\* carries the same candidates.
LifeCands ==
  {[score |-> 2, box |-> [x0 |-> 0, x1 |-> 1]],
   [score |-> 1, box |-> [x0 |-> 1, x1 |-> 2]]}
Batches(b, count) == {[im \in 1..b |-> c] : c \in [1..count -> LifeCands]}

\* configurePlugin calls: every type/format choice on a consistent shape,
\* every shape on float/linear inputs, and a wrong number of inputs.
CfgCalls ==
  {[n |-> 3, dims |-> <<1, 6, 1>>, types |-> ty, fmt |-> f] :
     ty \in [1..3 -> DataTypes], f \in Formats}
  \cup
  {[n |-> 3, dims |-> <<s, bx, c>>, types |-> AllFloat, fmt |-> "kLINEAR"] :
     s \in 0..MaxCount, c \in 0..MaxCount, bx \in {6 * k : k \in 0..MaxCount}}
  \cup
  {[n |-> 2, dims |-> <<1, 6>>, types |-> <<"kFLOAT", "kFLOAT">>,
    fmt |-> "kLINEAR"]}

Init ==
  /\ inst = NoPlugin
  /\ phase = "none"
  /\ cfg = Unconfigured
  /\ last = NoCall
  /\ visited = 0
  /\ kept = <<>>
  /\ thr2 = 0
  /\ kept2 = <<>>
  /\ slot = NoSlot

\* A constructor or clone returned k: a new object, or an abort.
Obtain(k, call) ==
  /\ phase' = IF k.ok THEN "live" ELSE "aborted"
  /\ inst' = IF k.ok THEN k.inst ELSE inst
  /\ cfg' = IF k.ok THEN Unconfigured ELSE cfg
  /\ last' = [call EXCEPT !.ok = k.ok]
  /\ UNCHANGED passVars

Construct2 ==
  /\ phase = "none"
  /\ \E t \in CtorThresh, d \in CtorDet, g \in CtorCount :
       Obtain(Ctor2(t, d, g), Call("ctor2"))

Construct3 ==
  /\ phase = "none"
  /\ \E t \in CtorThresh, d \in CtorDet, c \in CtorCount :
       Obtain(Ctor3(t, d, c), Call("ctor3"))

\* deserializePlugin on bytes serialize wrote, or on bytes from elsewhere.
ConstructFromData ==
  \/ /\ phase = "live"
     /\ last.op = "serialize"
     /\ Obtain(CtorData(last.buf),
               [Call("deserialize") EXCEPT !.buf = last.buf, !.from = last.from])
  \/ /\ phase = "none"
     /\ \E data \in RawBlobs :
          Obtain(CtorData(data), [Call("deserializeRaw") EXCEPT !.buf = data])

Clone ==
  /\ phase = "live"
  /\ Obtain(clone(inst), [Call("clone") EXCEPT !.from = inst])

Serialize ==
  /\ phase = "live"
  /\ last' = [Call("serialize") EXCEPT !.buf = serialize(inst), !.from = inst,
                                       !.ret = getSerializationSize]
  /\ UNCHANGED <<inst, phase, cfg>>
  /\ UNCHANGED passVars

GetOutputDimensions ==
  /\ phase = "live"
  /\ \E index \in 0..3 :
       LET r == getOutputDimensions(inst, index, 3)
       IN  /\ phase' = IF r.ok THEN "live" ELSE "aborted"
           /\ last' = [Call("getOutputDimensions") EXCEPT
                         !.b = index, !.ok = r.ok,
                         !.ret = IF r.ok THEN r.d0 ELSE 0]
  /\ UNCHANGED <<inst, cfg>>
  /\ UNCHANGED passVars

SupportsFormat ==
  /\ phase = "live"
  /\ \E type \in DataTypes, format \in Formats :
       last' = [Call("supportsFormat") EXCEPT
                  !.args = <<type, format>>, !.ok = supportsFormat(type, format)]
  /\ UNCHANGED <<inst, phase, cfg>>
  /\ UNCHANGED passVars

GetWorkspaceSize ==
  /\ phase = "live"
  /\ \E b \in 1..MaxBatch :
       LET g == getWorkspaceSize(inst, b)
       IN  /\ inst' = g.inst
           /\ last' = [Call("getWorkspaceSize") EXCEPT !.b = b, !.ret = g.ret]
  /\ UNCHANGED <<phase, cfg>>
  /\ UNCHANGED passVars

\* enqueue on a batch of inst.count candidates per image, with a caller
\* buffer of ws bytes (exactly the bytes required, or one byte short) and an
\* execution context that works or fails.
Enqueue ==
  /\ phase = "live"
  /\ \E b \in 1..MaxBatch, ctx \in BOOLEAN, short \in 0..1 :
     \E inputs \in Batches(b, inst.count) :
       LET r == enqueue(inst, b, inputs, ctx)
       IN  /\ inst' = r.inst
           /\ last' = [Call("enqueue") EXCEPT
                         !.b = b, !.ctx = ctx, !.ret = r.ret, !.out = r.out,
                         !.ws = RequiredWorkspace(b, inst.count,
                                                  inst.detections_per_im) - short,
                         !.passed = r.passed, !.runs = r.runs]
  /\ UNCHANGED <<phase, cfg>>
  /\ UNCHANGED passVars

ConfigurePlugin ==
  /\ phase = "live"
  /\ \E c \in CfgCalls :
       LET r == configurePlugin(inst, c.dims, c.n, c.types, c.fmt)
       IN  /\ phase' = IF r.ok THEN "live" ELSE "aborted"
           /\ inst' = IF r.ok THEN r.inst ELSE inst
           /\ cfg' = IF r.ok
                     THEN [configured |-> TRUE, types |-> c.types, fmt |-> c.fmt]
                     ELSE cfg
           /\ last' = [Call("configurePlugin") EXCEPT
                         !.ok = r.ok, !.args = c, !.from = inst]
  /\ UNCHANGED passVars

Next ==
  \/ Construct3
  \/ ConstructFromData
  \/ Construct2
  \/ Clone
  \/ Serialize
  \/ GetOutputDimensions
  \/ SupportsFormat
  \/ GetWorkspaceSize
  \/ Enqueue
  \/ ConfigurePlugin

Spec == Init /\ [][Next]_vars

\* ------------------------------------------------- the suppression pass
\* One image of an enqueue call, followed visit by visit.  The plugin comes
\* from the three-argument constructor and the pass runs with the arguments
\* enqueue hands over.  The candidates all have the same score, so that the
\* ranked order is the order of the input array, and each visit takes the
\* next one.  A second run under thr2 sees the same candidates.
PassCands(g) == [score : {1}, box : BoxesOn(g)]

PassInit(dets, cands) ==
  /\ \E t \in Thresholds, d \in 1..dets, c \in 1..cands :
       /\ Ctor3(t, d, c).ok
       /\ inst = Ctor3(t, d, c).inst
  /\ phase = "live"
  /\ cfg = Unconfigured
  /\ last = Call("enqueue")
  /\ visited = 0
  /\ kept = <<>>
  /\ kept2 = <<>>
  /\ slot = NoSlot

\* The pass alone: the second run uses the plugin's own threshold.
InitNMS ==
  /\ PassInit(NmsDet, NmsCand)
  /\ thr2 = inst.nms_thresh

\* Two thresholds on the same candidates, the second at least the first.
InitMono ==
  /\ PassInit(MonoDet, MonoCand)
  /\ thr2 \in {t \in Thresholds : Eighths(inst.nms_thresh) <= Eighths(t)}

\* The next candidate in ranked order is visited.
Visit(cands) ==
  /\ phase = "live"
  /\ ~slot.written
  /\ visited < EnqueueArgs(inst).count
  /\ \E cand \in cands :
       /\ kept' = SuppressStep(kept, cand, EnqueueArgs(inst).nms_thresh,
                               EnqueueArgs(inst).detections_per_im)
       /\ kept2' = SuppressStep(kept2, cand, thr2,
                                EnqueueArgs(inst).detections_per_im)
  /\ visited' = visited + 1
  /\ UNCHANGED <<inst, phase, cfg, last, thr2, slot>>

VisitNMS == Visit(PassCands(NmsGrid))

VisitMono == Visit(PassCands(MonoGrid))

\* The kept detections go to the image's output slot, whose three widths
\* are the output dimensions.
WriteOutput ==
  /\ phase = "live"
  /\ ~slot.written
  /\ visited = EnqueueArgs(inst).count
  /\ slot' = [written |-> TRUE, n |-> Len(kept),
              scores |-> getOutputDimensions(inst, 0, 3).d0,
              boxes |-> getOutputDimensions(inst, 1, 3).d0,
              classes |-> getOutputDimensions(inst, 2, 3).d0]
  /\ UNCHANGED <<inst, phase, cfg, last, visited, kept, thr2, kept2>>

NextNMS ==
  \/ VisitNMS
  \/ WriteOutput

SpecNMS == InitNMS /\ [][NextNMS]_vars

NextMono ==
  \/ VisitMono
  \/ WriteOutput

SpecMono == InitMono /\ [][NextMono]_vars

\* ================================================================= claims
FloatLeq(t1, t2) == Eighths(t1) <= Eighths(t2)

\* C1: in every image enqueue processes, any two distinct kept detections
\* overlap by at most nms_thresh, at every visit of the greedy pass and in
\* the finished pass.
C1_OverlapBound ==
  \A i \in 1..Len(kept), j \in 1..Len(kept) :
    i # j => OverlapLeq(kept[i].box, kept[j].box, inst.nms_thresh)

\* C1 witness: a finished pass that kept two detections overlapping by a
\* positive amount within the threshold and suppressed another candidate.
C1_Witness ==
  /\ slot.written
  /\ visited > Len(kept)
  /\ Len(kept) < inst.detections_per_im
  /\ \E i \in 1..Len(kept), j \in 1..Len(kept) :
       i < j /\ Intersection(kept[i].box, kept[j].box) > 0

\* C2: the number of kept detections is at most min(count,
\* detections_per_im) at every visit, and the written slot holds them within
\* the widths getOutputDimensions gives: detections_per_im scores and
\* classes, 6 * detections_per_im box floats.
C2_CapRespected ==
  /\ Len(kept) <= Min(inst.count, inst.detections_per_im)
  /\ Len(kept) <= visited
  /\ slot.written =>
       /\ slot.n = Len(kept)
       /\ slot.scores = inst.detections_per_im
       /\ slot.n <= slot.scores
       /\ 6 * slot.n <= slot.boxes
       /\ slot.n <= slot.classes

\* C2 witness: the cap stopped the pass with candidates left over.
C2_Witness ==
  /\ slot.written
  /\ slot.n = inst.detections_per_im
  /\ inst.count > inst.detections_per_im
  /\ visited = inst.count

\* C9 as stated: for the same candidates and cap, a threshold at least as
\* large never keeps fewer detections.
C9_MonotonicThreshold ==
  (slot.written /\ FloatLeq(inst.nms_thresh, thr2)) =>
    Len(kept2) >= Len(kept)

\* C9 amended: the same, for images of at most 3 candidates or a cap of at
\* most 2 detections.
C9_MonotonicSmall ==
  (/\ slot.written
   /\ FloatLeq(inst.nms_thresh, thr2)
   /\ (inst.count <= 3 \/ inst.detections_per_im <= 2)) =>
    Len(kept2) >= Len(kept)

\* C9 witness: a larger threshold kept strictly more of a small image.
C9_Witness ==
  /\ slot.written
  /\ inst.nms_thresh # thr2
  /\ FloatLeq(inst.nms_thresh, thr2)
  /\ inst.count <= 3
  /\ Len(kept2) > Len(kept)

\* C3 as stated: whenever getWorkspaceSize or enqueue has run, the instance
\* has nms_thresh > 0, detections_per_im > 0 and count > 0.
C3_ValidWhenRun ==
  last.op \in {"getWorkspaceSize", "enqueue"} =>
    /\ FloatGtZero(inst.nms_thresh)
    /\ inst.detections_per_im > 0
    /\ inst.count > 0

\* C4 as stated: getWorkspaceSize(b) returns the size the sizing path
\* computes for b and the instance's current configuration.
C4_WorkspaceSizeCurrent ==
  last.op = "getWorkspaceSize" =>
    last.ret = RequiredWorkspace(last.b, inst.count, inst.detections_per_im)

\* C10 as stated: the workspace size enqueue(batchSize) hands to the pass is
\* the size required for batchSize and the instance's current configuration.
C10_EnqueuePassesCurrentSize ==
  last.op = "enqueue" =>
    last.passed = RequiredWorkspace(last.b, inst.count, inst.detections_per_im)

C6_SerializationRoundTrip ==
  /\ last.op = "serialize" =>
       /\ Len(last.buf) = last.ret
       /\ Len(last.buf) = SizeofFloat + SizeofInt + SizeofSizeT
       /\ FromLESigned(SubSeq(last.buf, 1, SizeofFloat)) = inst.nms_thresh
       /\ FromLESigned(SubSeq(last.buf, SizeofFloat + 1, SizeofFloat + SizeofInt))
            = inst.detections_per_im
       /\ FromLEUnsigned(SubSeq(last.buf, SizeofFloat + SizeofInt + 1,
                                Len(last.buf))) = inst.count
  /\ last.op = "deserialize" =>
       /\ inst.nms_thresh = last.from.nms_thresh
       /\ inst.detections_per_im = last.from.detections_per_im
       /\ inst.count = last.from.count

\* C6 witness: a plugin rebuilt from the bytes of one whose three values
\* all differ.
C6_Witness ==
  /\ last.op = "deserialize"
  /\ phase = "live"
  /\ inst.count > 0
  /\ inst.detections_per_im # inst.count
  /\ inst.nms_thresh = FloatOfEighths(2)

\* C7: configurePlugin is rejected, leaving count as it was, whenever the
\* number of inputs is not 3, scores and classes differ in length, or the
\* boxes are not 6 times as long; accepted, it sets count to the scores
\* length.
CfgBadDims(c) ==
  \/ c.n # 3
  \/ c.dims[1] # c.dims[3]
  \/ c.dims[2] # 6 * c.dims[1]
  \/ c.dims[2] # 6 * c.dims[3]

C7_ConfigureEnforcesDims ==
  last.op = "configurePlugin" =>
    /\ CfgBadDims(last.args) =>
         /\ ~last.ok
         /\ phase = "aborted"
         /\ inst.count = last.from.count
    /\ last.ok =>
         /\ phase = "live"
         /\ inst.count = last.args.dims[1]

\* C7 witness: float/linear inputs whose scores and classes agree but whose
\* boxes are not 6 times as long were rejected with count untouched.
C7_Witness ==
  /\ last.op = "configurePlugin"
  /\ ~last.ok
  /\ last.args.n = 3
  /\ last.args.types = AllFloat
  /\ last.args.fmt = "kLINEAR"
  /\ last.args.dims[1] = last.args.dims[3]
  /\ last.args.dims[1] # last.from.count
  /\ last.args.dims[2] # 6 * last.args.dims[3]
  /\ inst.count = last.from.count

\* C8 as stated: supportsFormat accepts exactly (float32, linear), and an
\* accepted configuration has three float32 inputs in linear format.
C8_UnsupportedFormatDeclined ==
  /\ last.op = "supportsFormat" =>
       (last.ok <=> last.args = <<"kFLOAT", "kLINEAR">>)
  /\ cfg.configured =>
       /\ \A i \in 1..Len(cfg.types) : cfg.types[i] = "kFLOAT"
       /\ cfg.fmt = "kLINEAR"

====
